---- MODULE Spec2Model ----
(***************************************************************************)
(* Model of astrbot_plugin_blacklist_tools (src/main.py, class MyPlugin).   *)
(*                                                                         *)
(* Time is counted in whole seconds: datetime.now() is the variable now,   *)
(* an ISO timestamp is the number of seconds it denotes, and               *)
(* timedelta(seconds=d) adds d.  The record store (module .database,       *)
(* class BlacklistDatabase) is not part of src/; its operations are        *)
(* modelled from section 4.1 of the specification.                         *)
(***************************************************************************)
EXTENDS Integers, Sequences, FiniteSets, Bags, TLC

\* ------------------------------------------------------------------ bounds
MaxTime == 2            \* the clock runs from 0 to MaxTime
MaxInflight == 2        \* tool calls suspended at an await at the same time

\* --------------------------------------------------------------- constants
None == -1              \* Python None, for an absent expire_time
Forever == 0            \* the label "永久" echoed in place of a duration

self_id == "bot"                      \* event.get_self_id()
Users == {"u1", "u2"}                 \* identifiers that can hold an entry
Senders == Users \cup {self_id}       \* event.get_sender_id()
NoUser == "none"                      \* user_id omitted (None or empty)
Reasons == {"spam"}
ConfigDurations == {2}                \* max_blacklist_duration, in clock units
                                      \* (the default is 86400 seconds)
Durations == (-1) .. 3                \* requested durations: negative, zero,
                                      \* below, at and above every maximum
RacingDurations == {0, 1}             \* requested by interleaved calls: the
                                      \* default and one that expires in time
Pages == 0 .. 3
PageSizes == 0 .. 2
Outcomes == {"ok", "fail", "raise"}   \* of one store call: normal, caught
                                      \* storage fault, fault raised to caller
\* the outcomes of a handler's first and second store call: at most one faults
FaultPlans == {<<"ok", "ok">>, <<"fail", "ok">>, <<"raise", "ok">>,
               <<"ok", "fail">>, <<"ok", "raise">>}
Message == "[blocked]"                \* the configured blacklist_message

VARIABLES
    store,     \* the persisted table: user_id -> [ban_time, expire_time, reason]
    now,       \* the wall clock, in seconds
    config,    \* the options read in __init__
    last,      \* the last handler run: its inputs and what it returned
    inflight   \* the tool calls suspended between their lookup and their
               \* write, as a bag of [op, target, duration, reason]

vars == <<store, now, config, last, inflight>>

\* ------------------------------------------------------------ configuration
max_blacklist_duration == config.max_blacklist_duration
allow_permanent_blacklist == config.allow_permanent_blacklist
show_blacklist_status == config.show_blacklist_status
blacklist_message == config.blacklist_message
auto_delete_expired_after == config.auto_delete_expired_after
allow_blacklist_admin == config.allow_blacklist_admin

\* auto_delete_expired_after is 0: the sweep removes a row once it has expired
Configs ==
    [max_blacklist_duration : ConfigDurations,
     allow_permanent_blacklist : BOOLEAN,
     show_blacklist_status : BOOLEAN,
     blacklist_message : {Message},
     auto_delete_expired_after : {0},
     allow_blacklist_admin : BOOLEAN]

\* ------------------------------------------------------------ record store
Row(ban_time, expire_time, reason) ==
    [ban_time |-> ban_time, expire_time |-> expire_time, reason |-> reason]

Without(s, u) == [x \in DOMAIN s \ {u} |-> s[x]]

With(s, u, row) == [x \in DOMAIN s \cup {u} |-> IF x = u THEN row ELSE s[x]]

\* an entry whose expire_time, if present, has not yet passed
Expired(row, t) == row.expire_time # None /\ t > row.expire_time

IsActive(s, u, t) == u \in DOMAIN s /\ ~Expired(s[u], t)

ActiveUsers(s, t) == {u \in DOMAIN s : ~Expired(s[u], t)}

Ret(s, value, raised) == [store |-> s, ret |-> value, raised |-> raised]

add_user(s, user_id, ban_time, expire_time, reason, f) ==
    CASE f = "raise" -> Ret(s, FALSE, TRUE)
      [] f = "fail"  -> Ret(s, FALSE, FALSE)
      [] OTHER       -> Ret(With(s, user_id, Row(ban_time, expire_time, reason)),
                            TRUE, FALSE)

remove_user(s, user_id, f) ==
    CASE f = "raise" -> Ret(s, FALSE, TRUE)
      [] f = "fail"  -> Ret(s, FALSE, FALSE)
      [] OTHER       -> IF user_id \in DOMAIN s
                        THEN Ret(Without(s, user_id), TRUE, FALSE)
                        ELSE Ret(s, FALSE, FALSE)

is_user_blacklisted(s, user_id, t, f) ==
    CASE f = "raise" -> Ret(s, FALSE, TRUE)
      [] f = "fail"  -> Ret(s, FALSE, FALSE)
      [] OTHER       -> IF user_id \notin DOMAIN s THEN Ret(s, FALSE, FALSE)
                        ELSE IF Expired(s[user_id], t)
                             THEN Ret(Without(s, user_id), FALSE, FALSE)
                             ELSE Ret(s, TRUE, FALSE)

NoRow == [ban_time |-> None, expire_time |-> None, reason |-> ""]

get_user_info(s, user_id, t, f) ==
    CASE f = "raise" -> Ret(s, NoRow, TRUE)
      [] f = "fail"  -> Ret(s, NoRow, FALSE)
      [] OTHER       -> IF user_id \notin DOMAIN s THEN Ret(s, NoRow, FALSE)
                        ELSE IF Expired(s[user_id], t)
                             THEN Ret(Without(s, user_id), NoRow, FALSE)
                             ELSE Ret(s, s[user_id], FALSE)

get_blacklist_count(s, t, f) ==
    CASE f = "raise" -> Ret(s, 0, TRUE)
      [] f = "fail"  -> Ret(s, 0, FALSE)
      [] OTHER       -> Ret(s, Cardinality(ActiveUsers(s, t)), FALSE)

clear_blacklist(s, f) ==
    CASE f = "raise" -> Ret(s, FALSE, TRUE)
      [] f = "fail"  -> Ret(s, FALSE, FALSE)
      [] OTHER       -> Ret([x \in {} |-> NoRow], TRUE, FALSE)

\* the periodic sweep: rows expired for longer than the grace period
purge_expired(s, t) ==
    [x \in {u \in DOMAIN s : ~(s[u].expire_time # None
                              /\ s[u].expire_time < t - auto_delete_expired_after)}
        |-> s[x]]


\* rows in listing order (by ban time, then by identifier)
Rank(u) == CASE u = "u1" -> 1 [] u = "u2" -> 2 [] OTHER -> 3

Before(s, a, b) ==
    \/ s[a].ban_time < s[b].ban_time
    \/ s[a].ban_time = s[b].ban_time /\ Rank(a) < Rank(b)

Ordered(s, set) ==
    CHOOSE q \in [1 .. Cardinality(set) -> set] :
        /\ \A i, j \in DOMAIN q : i < j => Before(s, q[i], q[j])

Entry(s, u) ==
    [user_id |-> u, ban_time |-> s[u].ban_time,
     expire_time |-> s[u].expire_time, reason |-> s[u].reason]

get_blacklist_users(s, page, page_size, t, f) ==
    CASE f = "raise" -> Ret(s, <<>>, TRUE)
      [] f = "fail"  -> Ret(s, <<>>, FALSE)
      [] OTHER       ->
            LET q == Ordered(s, ActiveUsers(s, t))
                first == (page - 1) * page_size + 1
                final == IF page * page_size < Len(q) THEN page * page_size ELSE Len(q)
            IN  Ret(s, [i \in 1 .. (final - first + 1) |-> Entry(s, q[first + i - 1])],
                    FALSE)

\* -------------------------------------------------------- gateway / policy
NoResult == [kind |-> "none"]

\* a handler run as the framework sees it: who sent the event, the user it
\* was about, the value returned, whether the event was addressed to the bot,
\* whether the store was asked, whether the event was stopped, what was sent,
\* whether an error was logged and whether an exception left the handler
Call(op, sender, is_admin, target) ==
    [op |-> op, sender |-> sender, is_admin |-> is_admin, target |-> target,
     result |-> NoResult, addressed |-> FALSE, queried |-> FALSE,
     stopped |-> FALSE, sent |-> <<>>, logged |-> FALSE, escaped |-> FALSE]

\* the handler has awaited a store call
Asked(c) == [c EXCEPT !.queried = TRUE]

Done(s, l) == [store |-> s, last |-> l]

\* administrators never exempted
admin_exempt_never(is_admin) == FALSE

\* main.py:93  administrators are skipped unless they may be blacklisted
admin_exempt(is_admin) == is_admin /\ ~allow_blacklist_admin


\* the notice sent without consulting show_blacklist_status
notice_unconditional(has_messages) ==
    IF ~has_messages THEN <<>> ELSE <<blacklist_message>>

\* main.py:98-101  what is sent once the sender is found blacklisted
notice(has_messages) ==
    IF ~has_messages THEN <<>>
    ELSE IF show_blacklist_status THEN <<blacklist_message>>
    ELSE <<>>


\* the event stopped whatever the lookup says
must_stop_always(blacklisted) == TRUE

\* main.py:96-97  the event is stopped exactly when the lookup says blacklisted
must_stop(blacklisted) == blacklisted

\* the except clause missing: the exception leaves the handler
uncaught(c) == [c EXCEPT !.escaped = TRUE]

\* main.py:103-104  an exception raised in the try block is logged
caught(c) == [c EXCEPT !.logged = TRUE]

\* the addressed-to-bot test left out
ignored_never(addressed) == FALSE

\* main.py:88-89  a message not addressed to the bot is not looked at
ignored(addressed) == ~addressed

on_all_message(s, sender, is_admin, addressed, has_messages, f, send_ok) ==
    LET c == [Call("on_all_message", sender, is_admin, sender) EXCEPT
                  !.addressed = addressed]
    IN  IF ignored(addressed) THEN Done(s, c)
        ELSE IF admin_exempt(is_admin) THEN Done(s, c)
        ELSE LET r == is_user_blacklisted(s, sender, now, f)
                 q == Asked(c)
             IN  IF r.raised THEN Done(r.store, caught(q))
                 ELSE IF must_stop(r.ret)
                 THEN IF notice(has_messages) = <<>>
                      THEN Done(r.store, [q EXCEPT !.stopped = TRUE])
                      ELSE IF send_ok
                      THEN Done(r.store, [q EXCEPT !.stopped = TRUE,
                                                    !.sent = notice(has_messages)])
                      ELSE Done(r.store, caught([q EXCEPT !.stopped = TRUE]))
                 ELSE Done(r.store, q)

\* main.py:276  the user to be blocked
target_id(user_id, sender) == IF user_id # NoUser THEN user_id ELSE sender

\* main.py:288
is_self_defense(target, sender) == target = sender


\* the bot comparison inverted
block_denied_inverted(is_admin, target, sender) ==
    ~is_admin /\ ~is_self_defense(target, sender) /\ sender = self_id

\* main.py:290  a non-admin asking to block somebody else
block_denied(is_admin, target, sender) ==
    ~is_admin /\ ~is_self_defense(target, sender) /\ sender # self_id


\* the configuration flag read the wrong way round
admin_protected_inverted(is_admin, target, sender) ==
    target = sender /\ is_admin /\ allow_blacklist_admin

\* main.py:297  an administrator blocking themselves
admin_protected(is_admin, target, sender) ==
    target = sender /\ is_admin /\ ~allow_blacklist_admin


\* the clamp to the maximum left out
actual_duration_unclamped(duration) ==
    IF duration = 0 /\ ~allow_permanent_blacklist
    THEN max_blacklist_duration ELSE duration

\* main.py:313-321
actual_duration(duration) ==
    LET d == IF duration = 0 /\ ~allow_permanent_blacklist
             THEN max_blacklist_duration ELSE duration
    IN  IF d > max_blacklist_duration THEN max_blacklist_duration ELSE d

\* main.py:312, 323-326
expire_time_for(d) == IF d > 0 THEN now + d ELSE None

\* main.py:335
echoed_duration(d) == IF d > 0 THEN d ELSE Forever

Denied == [success |-> FALSE, message |-> "permission denied"]
AdminRefused == [success |-> FALSE, message |-> "cannot block an administrator"]
Failed == [success |-> FALSE, message |-> "operation failed"]
AlreadyBlocked(t) ==
    [success |-> TRUE, message |-> "already on the blacklist", user_id |-> t]
Blocked(t, d, reason) ==
    [success |-> TRUE, message |-> "blocked", user_id |-> t,
     duration |-> echoed_duration(d), reason |-> reason]


\* the duplicate check left out
duplicate_block_never(blacklisted) == FALSE

\* main.py:303-309  a target found on the blacklist is left as it is
duplicate_block(blacklisted) == blacklisted

\* main.py:311-337  what block_user does once the lookup has answered "not
\* blacklisted": the entry is written at the current time
block_write(s, q, t, duration, reason, f2) ==
    LET d == actual_duration(duration)
        r2 == add_user(s, t, now, expire_time_for(d), reason, f2)
    IN  IF r2.raised
        THEN Done(r2.store, [q EXCEPT !.result = Failed, !.logged = TRUE])
        ELSE Done(r2.store, [q EXCEPT !.result = Blocked(t, d, reason)])

block_user(s, sender, is_admin, user_id, duration, reason, f1, f2) ==
    LET t == target_id(user_id, sender)
        c == Call("block_user", sender, is_admin, t)
    IN  IF block_denied(is_admin, t, sender)
        THEN Done(s, [c EXCEPT !.result = Denied])
        ELSE IF admin_protected(is_admin, t, sender)
        THEN Done(s, [c EXCEPT !.result = AdminRefused])
        ELSE LET r1 == is_user_blacklisted(s, t, now, f1)
                 q == Asked(c)
             IN  IF r1.raised
                 THEN Done(r1.store, [q EXCEPT !.result = Failed, !.logged = TRUE])
                 ELSE IF duplicate_block(r1.ret)
                 THEN Done(r1.store, [q EXCEPT !.result = AlreadyBlocked(t)])
                 ELSE block_write(r1.store, q, t, duration, reason, f2)


\* the bot comparison inverted
unblock_denied_inverted(is_admin, sender) == ~is_admin /\ sender = self_id

\* main.py:362  only an administrator or the bot itself may unblock
unblock_denied(is_admin, sender) == ~is_admin /\ sender # self_id

UnblockDenied == [success |-> FALSE, message |-> "permission denied: admins only"]
NotListed(u) == [success |-> TRUE, message |-> "not on the blacklist", user_id |-> u]
Unblocked(u) == [success |-> TRUE, message |-> "unblocked", user_id |-> u]
UnblockFailed == [success |-> FALSE, message |-> "unblock failed"]


\* an absent user taken for a present one
absent_never(row) == FALSE

\* main.py:370  `if not user`
absent(row) == row = NoRow

\* main.py:377-388  what unblock_user does once get_user_info has returned
\* an entry
unblock_remove(s, q, user_id, f2) ==
    LET r2 == remove_user(s, user_id, f2)
    IN  IF r2.raised
        THEN Done(r2.store, [q EXCEPT !.result = Failed, !.logged = TRUE])
        ELSE IF r2.ret
        THEN Done(r2.store, [q EXCEPT !.result = Unblocked(user_id)])
        ELSE Done(r2.store, [q EXCEPT !.result = UnblockFailed])

unblock_user(s, sender, is_admin, user_id, f1, f2) ==
    LET c == Call("unblock_user", sender, is_admin, user_id)
    IN  IF unblock_denied(is_admin, sender)
        THEN Done(s, [c EXCEPT !.result = UnblockDenied])
        ELSE LET r1 == get_user_info(s, user_id, now, f1)
                 q == Asked(c)
             IN  IF r1.raised
                 THEN Done(r1.store, [q EXCEPT !.result = Failed, !.logged = TRUE])
                 ELSE IF absent(r1.ret)
                 THEN Done(r1.store, [q EXCEPT !.result = NotListed(user_id)])
                 ELSE unblock_remove(r1.store, q, user_id, f2)

\* main.py:416-418, 126-130
total_pages(total_count, page_size) == (total_count + page_size - 1) \div page_size

\* only the lower edge clamped
clamp_page_low_only(page, pages) == IF page < 1 THEN 1 ELSE page

clamp_page(page, pages) ==
    IF page < 1 THEN 1 ELSE IF page > pages THEN pages ELSE page

\* main.py:425-430  one listed user as the tool reports it
Listed(e) ==
    [user_id |-> e.user_id, ban_time |-> e.ban_time,
     expire_time |-> IF e.expire_time # None THEN e.expire_time ELSE Forever,
     reason |-> IF e.reason # "" THEN e.reason ELSE "none given"]

EmptyList == [total_count |-> 0, users |-> <<>>]
QueryFailed == [error |-> "query failed"]
Page(total, pages, page, page_size, users) ==
    [total_count |-> total, total_pages |-> pages, current_page |-> page,
     page_size |-> page_size, users |-> users]

list_blacklist(s, page, page_size, f1, f2) ==
    LET c == Asked(Call("list_blacklist", NoUser, FALSE, NoUser))
        r1 == get_blacklist_count(s, now, f1)
    IN  IF r1.raised
        THEN Done(r1.store, [c EXCEPT !.result = QueryFailed, !.logged = TRUE])
        ELSE IF r1.ret = 0
        THEN Done(r1.store, [c EXCEPT !.result = EmptyList])
        ELSE IF page_size = 0      \* ZeroDivisionError at main.py:416
        THEN Done(r1.store, [c EXCEPT !.result = QueryFailed, !.logged = TRUE])
        ELSE LET pages == total_pages(r1.ret, page_size)
                 p == clamp_page(page, pages)
                 r2 == get_blacklist_users(r1.store, p, page_size, now, f2)
             IN  IF r2.raised
                 THEN Done(r2.store, [c EXCEPT !.result = QueryFailed, !.logged = TRUE])
                 ELSE Done(r2.store,
                           [c EXCEPT !.result =
                                Page(r1.ret, pages, p, page_size,
                                     [i \in DOMAIN r2.ret |-> Listed(r2.ret[i])])])

Status(u, row) ==
    [is_blacklisted |-> TRUE, user_id |-> u, ban_time |-> row.ban_time,
     expire_time |-> IF row.expire_time # None THEN row.expire_time ELSE Forever,
     reason |-> IF row.reason # "" THEN row.reason ELSE "none given"]
NoStatus(u) == [is_blacklisted |-> FALSE, user_id |-> u]

get_blacklist_status(s, sender, user_id, f) ==
    LET t == target_id(user_id, sender)
        c == Asked(Call("get_blacklist_status", sender, FALSE, t))
        r == get_user_info(s, t, now, f)
    IN  IF r.raised
        THEN Done(r.store, [c EXCEPT !.result = QueryFailed, !.logged = TRUE])
        ELSE IF ~absent(r.ret)
        THEN Done(r.store, [c EXCEPT !.result = Status(t, r.ret)])
        ELSE Done(r.store, [c EXCEPT !.result = NoStatus(t)])

\* ------------------------------------------------- administrator commands
\* main.py:192-195  the command stores the duration it was given
add_expire_time(duration) == IF duration > 0 THEN now + duration ELSE None

Text(message) == [text |-> message]
Added(u, duration) ==
    [text |-> "added", user_id |-> u, duration |-> echoed_duration(duration)]

add(s, user_id, duration, reason, f) ==
    LET c == Asked(Call("add", NoUser, TRUE, user_id))
        r == add_user(s, user_id, now, add_expire_time(duration), reason, f)
    IN  IF r.raised
        THEN Done(r.store, [c EXCEPT !.result = Text("add failed"), !.logged = TRUE])
        ELSE IF r.ret
        THEN Done(r.store, [c EXCEPT !.result = Added(user_id, duration)])
        ELSE Done(r.store, [c EXCEPT !.result = Text("add failed")])

rm(s, user_id, f1, f2) ==
    LET c == Asked(Call("rm", NoUser, TRUE, user_id))
        r1 == get_user_info(s, user_id, now, f1)
    IN  IF r1.raised
        THEN Done(r1.store, [c EXCEPT !.result = Text("remove failed"), !.logged = TRUE])
        ELSE IF absent(r1.ret)
        THEN Done(r1.store, [c EXCEPT !.result = Text("not on the blacklist")])
        ELSE LET r2 == remove_user(r1.store, user_id, f2)
             IN  IF r2.raised
                 THEN Done(r2.store, [c EXCEPT !.result = Text("remove failed"),
                                                !.logged = TRUE])
                 ELSE IF r2.ret
                 THEN Done(r2.store, [c EXCEPT !.result = Text("removed")])
                 ELSE Done(r2.store, [c EXCEPT !.result = Text("remove failed")])

Cleared(count) == [text |-> "cleared", count |-> count]

\* a single entry taken for none
nothing_to_clear_below_two(count) == count <= 1

\* main.py:218  nothing is cleared when the count is zero
nothing_to_clear(count) == count = 0

clear(s, f1, f2) ==
    LET c == Asked(Call("clear", NoUser, TRUE, NoUser))
        r1 == get_blacklist_count(s, now, f1)
    IN  IF r1.raised
        THEN Done(r1.store, [c EXCEPT !.result = Text("clear failed"), !.logged = TRUE])
        ELSE IF nothing_to_clear(r1.ret)
        THEN Done(r1.store, [c EXCEPT !.result = Text("already empty")])
        ELSE LET r2 == clear_blacklist(r1.store, f2)
             IN  IF r2.raised
                 THEN Done(r2.store, [c EXCEPT !.result = Text("clear failed"),
                                                !.logged = TRUE])
                 ELSE IF r2.ret
                 THEN Done(r2.store, [c EXCEPT !.result = Cleared(r1.ret)])
                 ELSE Done(r2.store, [c EXCEPT !.result = Text("clear failed")])

\* main.py:134-151  the page as the command prints it: the rows, then
\* "page p/pages, total records" and the page size; sent as an image when
\* the text could be rendered (main.py:153-157) and as plain text otherwise
Printed(e) ==
    [user_id |-> e.user_id, ban_time |-> e.ban_time,
     expire_time |-> IF e.expire_time # None THEN e.expire_time ELSE Forever,
     reason |-> IF e.reason # "" THEN e.reason ELSE "none"]

Sheet(total, pages, page, page_size, rows, image) ==
    [text |-> "list", total_count |-> total, total_pages |-> pages,
     current_page |-> page, page_size |-> page_size, rows |-> rows,
     image |-> image]

\* main.py:112-163; the page arithmetic of main.py:126-130 is the one of
\* list_blacklist (total_pages, clamp_page)
ls(s, page, page_size, image_ok, f1, f2) ==
    LET c == Asked(Call("ls", NoUser, TRUE, NoUser))
        r1 == get_blacklist_count(s, now, f1)
    IN  IF r1.raised
        THEN Done(r1.store, [c EXCEPT !.result = Text("list failed"), !.logged = TRUE])
        ELSE IF r1.ret = 0
        THEN Done(r1.store, [c EXCEPT !.result = Text("blacklist is empty")])
        ELSE IF page_size = 0      \* ZeroDivisionError at main.py:126
        THEN Done(r1.store, [c EXCEPT !.result = Text("list failed"), !.logged = TRUE])
        ELSE LET pages == total_pages(r1.ret, page_size)
                 p == clamp_page(page, pages)
                 r2 == get_blacklist_users(r1.store, p, page_size, now, f2)
             IN  IF r2.raised
                 THEN Done(r2.store, [c EXCEPT !.result = Text("list failed"),
                                               !.logged = TRUE])
                 ELSE Done(r2.store,
                           [c EXCEPT !.result =
                                Sheet(r1.ret, pages, p, page_size,
                                      [i \in DOMAIN r2.ret |-> Printed(r2.ret[i])],
                                      image_ok)])

\* the permission filter dropped: every sender may run the commands
permitted_always(is_admin) == TRUE

\* main.py:110, 165, 184, 211  filter.permission_type(ADMIN): the framework
\* runs the command only for a sender it holds to be an administrator
permitted(is_admin) == is_admin

\* a command attempt: the handler's run d, or nothing at all
command(s, is_admin, op, target, d) ==
    IF permitted(is_admin) THEN d ELSE Done(s, Call(op, NoUser, FALSE, target))

\* ------------------------------------------------------------------ actions
\* A handler runs to completion and the framework takes what it returned
\* (Deliver) before the next handler, clock tick or sweep.
Idle == Call("idle", NoUser, FALSE, NoUser)

Apply(d) == /\ last = Idle
            /\ store' = d.store
            /\ last' = d.last
            /\ UNCHANGED <<now, config, inflight>>

OnAllMessage ==
    \E sender \in Senders, is_admin, addressed, has_messages, send_ok \in BOOLEAN,
       f \in Outcomes :
        Apply(on_all_message(store, sender, is_admin, addressed, has_messages, f, send_ok))

\* the bot names the user it decides about; everybody else may omit user_id
BlockUser ==
    \E sender \in Senders, is_admin \in BOOLEAN, user_id \in Users \cup {NoUser},
       duration \in Durations, reason \in Reasons, f \in FaultPlans :
        /\ target_id(user_id, sender) \in Users
        /\ Apply(block_user(store, sender, is_admin, user_id, duration, reason, f[1], f[2]))

UnblockUser ==
    \E sender \in Senders, is_admin \in BOOLEAN, user_id \in Users,
       f \in FaultPlans :
        Apply(unblock_user(store, sender, is_admin, user_id, f[1], f[2]))

ListBlacklist ==
    \E page \in Pages, page_size \in PageSizes, f \in FaultPlans :
        Apply(list_blacklist(store, page, page_size, f[1], f[2]))

GetBlacklistStatus ==
    \E sender \in Senders, user_id \in Users \cup {NoUser}, f \in Outcomes :
        Apply(get_blacklist_status(store, sender, user_id, f))

\* the commands run only for senders the framework holds to be
\* administrators (filter.permission_type(ADMIN)); they do not read the sender
Ls ==
    \E is_admin, image_ok \in BOOLEAN, page \in Pages, page_size \in PageSizes,
       f \in FaultPlans :
        Apply(command(store, is_admin, "ls", NoUser,
                      ls(store, page, page_size, image_ok, f[1], f[2])))

Add ==
    \E is_admin \in BOOLEAN, user_id \in Users, duration \in Durations,
       reason \in Reasons, f \in Outcomes :
        Apply(command(store, is_admin, "add", user_id,
                      add(store, user_id, duration, reason, f)))

Rm ==
    \E is_admin \in BOOLEAN, user_id \in Users, f \in FaultPlans :
        Apply(command(store, is_admin, "rm", user_id,
                      rm(store, user_id, f[1], f[2])))

Clear ==
    \E is_admin \in BOOLEAN, f \in FaultPlans :
        Apply(command(store, is_admin, "clear", NoUser,
                      clear(store, f[1], f[2])))

Deliver ==
    /\ last # Idle
    /\ last' = Idle
    /\ UNCHANGED <<store, now, config, inflight>>

\* the store's background sweep
Purge ==
    /\ last = Idle
    /\ store' = purge_expired(store, now)
    /\ UNCHANGED <<now, config, last, inflight>>

Tick ==
    /\ last = Idle
    /\ now < MaxTime
    /\ now' = now + 1
    /\ UNCHANGED <<store, config, last, inflight>>

Init ==
    /\ store = [x \in {} |-> NoRow]
    /\ now = 0
    /\ config \in Configs
    /\ last = Idle
    /\ inflight = EmptyBag

Next ==
    \/ OnAllMessage
    \/ BlockUser
    \/ UnblockUser
    \/ ListBlacklist
    \/ GetBlacklistStatus
    \/ Ls
    \/ Add
    \/ Rm
    \/ Clear
    \/ Deliver
    \/ Purge
    \/ Tick

Spec == Init /\ [][Next]_vars

\* ------------------------------------------------- interleaved tool calls
\* The tools are coroutines: a call is suspended at each `await self.db...`
\* and other handlers run meanwhile (cooperative scheduling).  A call of
\* block_user or unblock_user is taken in two steps, split at the await
\* between its lookup and its write; a call that returns without writing is
\* done in the first step.  The store answers normally in both steps.
\* A suspended call keeps the locals its second step reads: the target, the
\* requested duration and the reason; the caller, checked in the first step,
\* is not read again.
Pending(op, target, duration, reason) ==
    [op |-> op, target |-> target, duration |-> duration, reason |-> reason]

\* the run of a resumed call as the framework sees it
Resumed(call) == Asked(Call(call.op, NoUser, FALSE, call.target))

\* main.py:288-309  the call gets as far as the write
block_proceeds(s, sender, is_admin, t) ==
    /\ ~block_denied(is_admin, t, sender)
    /\ ~admin_protected(is_admin, t, sender)
    /\ ~duplicate_block(is_user_blacklisted(s, t, now, "ok").ret)

\* main.py:361-375  the call gets as far as remove_user
unblock_proceeds(s, sender, is_admin, user_id) ==
    /\ ~unblock_denied(is_admin, sender)
    /\ ~absent(get_user_info(s, user_id, now, "ok").ret)

Suspend(s, call) ==
    /\ last = Idle
    /\ BagCardinality(inflight) < MaxInflight
    /\ store' = s
    /\ inflight' = inflight (+) SetToBag({call})
    /\ UNCHANGED <<now, config, last>>

Resume(call, d) ==
    /\ last = Idle
    /\ BagIn(call, inflight)
    /\ store' = d.store
    /\ last' = d.last
    /\ inflight' = inflight (-) SetToBag({call})
    /\ UNCHANGED <<now, config>>

\* main.py:263-309  block_user up to the await of its lookup
BlockBegin ==
    \E sender \in Senders, is_admin \in BOOLEAN, user_id \in Users \cup {NoUser},
       duration \in RacingDurations, reason \in Reasons :
        LET t == target_id(user_id, sender)
        IN  /\ t \in Users
            /\ IF block_proceeds(store, sender, is_admin, t)
               THEN Suspend(is_user_blacklisted(store, t, now, "ok").store,
                            Pending("block_user", t, duration, reason))
               ELSE Apply(block_user(store, sender, is_admin, user_id, duration,
                                     reason, "ok", "ok"))

\* main.py:311-337  block_user resumed: the write and the payload
BlockEnd(call) ==
    /\ call.op = "block_user"
    /\ Resume(call, block_write(store, Resumed(call), call.target,
                                call.duration, call.reason, "ok"))

\* main.py:346-375  unblock_user up to the await of get_user_info
UnblockBegin ==
    \E sender \in Senders, is_admin \in BOOLEAN, user_id \in Users :
        IF unblock_proceeds(store, sender, is_admin, user_id)
        THEN Suspend(get_user_info(store, user_id, now, "ok").store,
                     Pending("unblock_user", user_id, 0, ""))
        ELSE Apply(unblock_user(store, sender, is_admin, user_id, "ok", "ok"))

\* main.py:377-388  unblock_user resumed: remove_user and the payload
UnblockEnd(call) ==
    /\ call.op = "unblock_user"
    /\ Resume(call, unblock_remove(store, Resumed(call), call.target, "ok"))

BlockResumes == \E call \in BagToSet(inflight) : BlockEnd(call)
UnblockResumes == \E call \in BagToSet(inflight) : UnblockEnd(call)

NextInterleaved ==
    \/ BlockBegin
    \/ BlockResumes
    \/ UnblockBegin
    \/ UnblockResumes
    \/ Rm
    \/ Clear
    \/ Deliver
    \/ Purge
    \/ Tick

SpecInterleaved == Init /\ [][NextInterleaved]_vars

\* ------------------------------------------------------------------- claims
\* A handler can start in the states where the previous result was taken.
Ready == last = Idle

AnyReason == {"", "spam", "flood"}

Tools == {"block_user", "unblock_user", "list_blacklist", "get_blacklist_status"}

\* the callers section 4.2 lets add an entry through the agent tool
PermittedBlock(sender, is_admin, target) ==
    /\ is_admin \/ target = sender \/ sender = self_id
    /\ ~(target = sender /\ is_admin /\ ~allow_blacklist_admin)

ActiveRows(s) == [u \in ActiveUsers(s, now) |-> s[u]]

\* C1 as stated: every addressed message of a currently blacklisted sender is
\* stopped; with show_blacklist_status it is answered by exactly one reply,
\* the blacklist_message, and without it by none.
C1_AsStated ==
    Ready =>
      \A sender \in Senders, is_admin \in BOOLEAN, has_messages \in BOOLEAN :
        IsActive(store, sender, now) =>
          LET run == on_all_message(store, sender, is_admin, TRUE, has_messages,
                                    "ok", TRUE).last
          IN  /\ run.stopped
              /\ run.sent = IF show_blacklist_status
                            THEN <<blacklist_message>> ELSE <<>>

\* C1 amended: an addressed message of a currently blacklisted sender who is
\* not an administrator exempted by allow_blacklist_admin = false is stopped;
\* it is answered by exactly one reply, the blacklist_message, when
\* show_blacklist_status is set and the message chain is not empty, and by no
\* reply otherwise.
C1_Suppressed ==
    Ready =>
      \A sender \in Senders, is_admin \in BOOLEAN, has_messages \in BOOLEAN :
        (IsActive(store, sender, now) /\ ~(is_admin /\ ~allow_blacklist_admin)) =>
          LET run == on_all_message(store, sender, is_admin, TRUE, has_messages,
                                    "ok", TRUE).last
          IN  /\ run.stopped
              /\ run.sent = IF show_blacklist_status /\ has_messages
                            THEN <<blacklist_message>> ELSE <<>>

C1_Witness ==
    /\ last.op = "on_all_message"
    /\ IsActive(store, last.sender, now)
    /\ last.stopped
    /\ last.sent = <<blacklist_message>>

\* C2: the blacklist check is true for an entry without expire_time and for
\* an entry at every time from ban_time up to expire_time, and false at every
\* time after expire_time although the row is still stored; an addressed
\* message of a sender whose entry has expired is not stopped.
C2_Expiry ==
    Ready =>
      \A u \in DOMAIN store :
        LET row == store[u]
        IN  /\ \A t \in row.ban_time .. (MaxTime + 4) :
                 LET listed == is_user_blacklisted(store, u, t, "ok").ret
                 IN  /\ row.expire_time = None => listed
                     /\ (row.expire_time # None /\ t < row.expire_time) => listed
                     /\ (row.expire_time # None /\ t > row.expire_time) => ~listed
            /\ (row.expire_time # None /\ now > row.expire_time) =>
                 \A is_admin \in BOOLEAN, has_messages \in BOOLEAN :
                   LET run == on_all_message(store, u, is_admin, TRUE, has_messages,
                                             "ok", TRUE).last
                   IN  ~run.stopped /\ run.sent = <<>>

C2_Witness ==
    /\ Ready
    /\ \E u \in DOMAIN store :
         /\ store[u].expire_time # None
         /\ now > store[u].expire_time
         /\ ~on_all_message(store, u, FALSE, TRUE, TRUE, "ok", TRUE).last.stopped

\* C3: block_user from a sender who is no administrator and not the bot, for
\* a target other than the sender, returns success = false and leaves the
\* store as it was.
C3_ThirdPartyDenied ==
    Ready =>
      \A sender \in Users, duration \in Durations, reason \in AnyReason,
         f \in FaultPlans :
        \A user_id \in Senders \ {sender} :
          LET d == block_user(store, sender, FALSE, user_id, duration, reason,
                              f[1], f[2])
          IN  /\ d.last.result.success = FALSE
              /\ d.store = store

C3_Witness ==
    /\ last.op = "block_user"
    /\ ~last.is_admin
    /\ last.sender # self_id
    /\ last.target # last.sender
    /\ last.result = Denied

\* C4: block_user aimed at the sender (by name or by omitting user_id), with
\* the store answering normally: a sender who is no administrator gets
\* success = true and is blacklisted afterwards; an administrator gets that
\* exactly when allow_blacklist_admin is set, and otherwise success = false
\* and an unchanged store.
C4_SelfBlock ==
    Ready =>
      \A sender \in Senders, is_admin \in BOOLEAN, duration \in Durations,
         reason \in AnyReason :
        \A user_id \in {NoUser, sender} :
          LET d == block_user(store, sender, is_admin, user_id, duration, reason,
                              "ok", "ok")
          IN  IF is_admin /\ ~allow_blacklist_admin
              THEN d.last.result.success = FALSE /\ d.store = store
              ELSE d.last.result.success = TRUE /\ IsActive(d.store, sender, now)

C4_Witness ==
    /\ last.op = "block_user"
    /\ last.target = last.sender
    /\ ~last.is_admin
    /\ last.result.message = "blocked"
    /\ IsActive(store, last.sender, now)

\* C5: unblock_user from a sender who is no administrator and not the bot
\* returns success = false and leaves the store as it was, whatever the
\* target and whatever the store would have answered.
C5_UnblockDenied ==
    Ready =>
      \A sender \in Users, user_id \in Senders, f \in FaultPlans :
        LET d == unblock_user(store, sender, FALSE, user_id, f[1], f[2])
        IN  /\ d.last.result.success = FALSE
            /\ d.store = store

C5_Witness ==
    /\ last.op = "unblock_user"
    /\ ~last.is_admin
    /\ last.sender # self_id
    /\ last.result = UnblockDenied
    /\ IsActive(store, last.target, now)

\* C6: block_user from a permitted caller for a target that is actively
\* blacklisted (and found so by the lookup) returns success = true and leaves
\* the entry's ban_time, expire_time and reason as they were, for every
\* requested duration and reason.
C6_DuplicateKept ==
    Ready =>
      \A sender \in Senders, is_admin \in BOOLEAN, user_id \in Users \cup {NoUser},
         duration \in Durations, reason \in AnyReason, f2 \in Outcomes :
        LET t == IF user_id # NoUser THEN user_id ELSE sender
            d == block_user(store, sender, is_admin, user_id, duration, reason,
                            "ok", f2)
        IN  (PermittedBlock(sender, is_admin, t) /\ IsActive(store, t, now)) =>
              /\ d.last.result.success = TRUE
              /\ t \in DOMAIN d.store
              /\ d.store[t] = store[t]
              /\ d.store = store

C6_Witness ==
    /\ last.op = "block_user"
    /\ last.result = AlreadyBlocked(last.target)
    /\ IsActive(store, last.target, now)

\* C7: unblock_user from an administrator or the bot, for a user without an
\* active entry and with the store answering normally, returns success = true
\* with the "not on the blacklist" message, leaves the active entries as they
\* were, and returns the same when repeated.
C7_UnblockAbsent ==
    Ready =>
      \A sender \in Senders, is_admin \in BOOLEAN, user_id \in Senders :
        ((is_admin \/ sender = self_id) /\ ~IsActive(store, user_id, now)) =>
          LET d == unblock_user(store, sender, is_admin, user_id, "ok", "ok")
              again == unblock_user(d.store, sender, is_admin, user_id, "ok", "ok")
          IN  /\ d.last.result = NotListed(user_id)
              /\ d.last.result.success = TRUE
              /\ ActiveRows(d.store) = ActiveRows(store)
              /\ again.last.result = NotListed(user_id)
              /\ again.store = d.store

C7_Witness ==
    /\ last.op = "unblock_user"
    /\ last.is_admin \/ last.sender = self_id
    /\ last.result = NotListed(last.target)
    /\ ~IsActive(store, last.target, now)

\* C8: block_user from a permitted caller for a target that is not actively
\* blacklisted, with the store answering normally, creates an entry at the
\* current time; it expires max_blacklist_duration seconds later when the
\* requested duration exceeds the maximum, and also when the requested
\* duration is 0 and permanent entries are disabled; the duration in the
\* returned payload is the one the entry was given ("permanent" for an entry
\* without expire_time).
C8_Clamped ==
    Ready =>
      \A sender \in Senders, is_admin \in BOOLEAN, user_id \in Users \cup {NoUser},
         duration \in Durations, reason \in AnyReason :
        LET t == IF user_id # NoUser THEN user_id ELSE sender
            d == block_user(store, sender, is_admin, user_id, duration, reason,
                            "ok", "ok")
        IN  (PermittedBlock(sender, is_admin, t) /\ ~IsActive(store, t, now)) =>
              /\ d.last.result.success = TRUE
              /\ d.last.result.message = "blocked"
              /\ t \in DOMAIN d.store
              /\ d.store[t].ban_time = now
              /\ duration > max_blacklist_duration =>
                   d.store[t].expire_time = now + max_blacklist_duration
              /\ (duration = 0 /\ ~allow_permanent_blacklist) =>
                   d.store[t].expire_time = now + max_blacklist_duration
              /\ d.last.result.duration =
                   IF d.store[t].expire_time = None THEN Forever
                   ELSE d.store[t].expire_time - d.store[t].ban_time

C8_Witness ==
    /\ last.op = "block_user"
    /\ last.result.message = "blocked"
    /\ last.result.duration = max_blacklist_duration
    /\ last.target \in DOMAIN store
    /\ store[last.target].ban_time = now
    /\ store[last.target].expire_time = now + max_blacklist_duration

\* C9 as stated: after the command `blacklist add` or the tool block_user has
\* created an entry for a requested duration above max_blacklist_duration,
\* the entry has an expire_time, at most max_blacklist_duration seconds after
\* its ban_time.
C9_EveryAddClamps ==
    /\ (/\ last.op = "add"
        /\ last.result # NoResult
        /\ last.result.text = "added"
        /\ last.result.duration > max_blacklist_duration) =>
          /\ last.target \in DOMAIN store
          /\ store[last.target].expire_time # None
          /\ store[last.target].expire_time
               <= store[last.target].ban_time + max_blacklist_duration
    /\ Ready =>
         \A sender \in Senders, is_admin \in BOOLEAN, user_id \in Users,
            duration \in Durations :
           LET d == block_user(store, sender, is_admin, user_id, duration, "spam",
                               "ok", "ok")
           IN  (duration > max_blacklist_duration
                /\ d.last.result.message = "blocked") =>
                  /\ d.store[user_id].expire_time # None
                  /\ d.store[user_id].expire_time
                       <= d.store[user_id].ban_time + max_blacklist_duration

\* C10 as stated: whatever the input, the store's answer or the permission,
\* each of the four agent tools returns a payload with a success flag.
C10_SuccessFlag ==
    last.op \in Tools => "success" \in DOMAIN last.result

\* C11: on_all_message never lets a fault leave the handler.  For an addressed
\* message, whether the lookup raises, the lookup reports failure or the
\* notice cannot be sent, the handler returns normally; a raised fault is
\* only logged; and when the lookup failed the event is not stopped and
\* nothing is sent.
C11_FaultContained ==
    Ready =>
        \A sender \in Senders, is_admin, has_messages, send_ok \in BOOLEAN,
           f \in Outcomes :
            LET run == on_all_message(store, sender, is_admin, TRUE,
                                      has_messages, f, send_ok).last
            IN  /\ ~run.escaped
                /\ (run.queried /\ f = "raise") =>
                       run.logged /\ ~run.stopped /\ run.sent = <<>>
                /\ (run.queried /\ f = "fail") =>
                       ~run.stopped /\ run.sent = <<>>
                /\ (run.stopped /\ notice(has_messages) # <<>> /\ ~send_ok) =>
                       run.logged /\ run.sent = <<>>

\* an addressed message of an actively blacklisted sender whose lookup raised:
\* logged, not stopped, nothing escaped
C11_Witness ==
    /\ last.op = "on_all_message"
    /\ last.addressed /\ last.queried
    /\ last.logged /\ ~last.stopped /\ ~last.escaped
    /\ IsActive(store, last.sender, now)

\* the least number of pages of k entries that hold n entries
CeilDiv(n, k) == CHOOSE q \in 0 .. n : q * k >= n /\ (q - 1) * k < n
Least(a, b) == IF a < b THEN a ELSE b

\* what a list operation served: page number, page count, entries on the page
Served(run) ==
    IF run.op = "ls"
    THEN [page |-> run.result.current_page, pages |-> run.result.total_pages,
          entries |-> Len(run.result.rows)]
    ELSE [page |-> run.result.current_page, pages |-> run.result.total_pages,
          entries |-> Len(run.result.users)]

\* C12: with N >= 1 active entries and page_size >= 1, and the store
\* answering normally, `blacklist ls` and list_blacklist serve page 1 for a
\* requested page below 1, the last page ceil(N / page_size) for a requested
\* page above it and the requested page otherwise, and the served page p
\* holds exactly min(page_size, N - (p - 1) * page_size) entries.  For N = 25
\* and page_size = 10 the page count is 3, page 0 is served as 1 and page 7
\* as 3.
C12_Paging ==
    Ready =>
        \A page \in Pages, page_size \in PageSizes \ {0}, image_ok \in BOOLEAN :
            LET N == Cardinality(ActiveUsers(store, now))
                wanted == IF page < 1 THEN 1
                          ELSE IF page > CeilDiv(N, page_size)
                          THEN CeilDiv(N, page_size)
                          ELSE page
                runs == {ls(store, page, page_size, image_ok, "ok", "ok").last,
                         list_blacklist(store, page, page_size, "ok", "ok").last}
            IN  N >= 1 =>
                    /\ \A run \in runs :
                           /\ Served(run).pages = CeilDiv(N, page_size)
                           /\ Served(run).page = wanted
                           /\ Served(run).entries =
                                  Least(page_size, N - (wanted - 1) * page_size)
                    /\ total_pages(25, 10) = 3
                    /\ clamp_page(0, total_pages(25, 10)) = 1
                    /\ clamp_page(7, total_pages(25, 10)) = 3
                    /\ \A q \in 1 .. 3 : clamp_page(q, total_pages(25, 10)) = q

\* `blacklist ls` served the second and last page of two entries, one a page
C12_Witness ==
    /\ last.op = "ls"
    /\ last.result # NoResult
    /\ last.result.text = "list"
    /\ last.result.total_count = 2
    /\ last.result.current_page = 2 /\ last.result.total_pages = 2
    /\ Len(last.result.rows) = 1

\* C13: `blacklist clear` with N >= 1 active entries, the store answering
\* normally: all N active entries are removed, the count the command reports
\* is N, the number of active entries it removed, and get_blacklist_count()
\* is 0 right afterwards (no row at all is left).
C13_ClearAll ==
    Ready =>
        LET before == ActiveUsers(store, now)
            N == Cardinality(before)
            d == clear(store, "ok", "ok")
            removed == {u \in before : ~IsActive(d.store, u, now)}
        IN  N >= 1 =>
                /\ removed = before
                /\ d.last.result = Cleared(Cardinality(removed))
                /\ d.last.result.count = N
                /\ get_blacklist_count(d.store, now, "ok").ret = 0
                /\ DOMAIN d.store = {}

\* two entries were cleared and reported as two
C13_Witness ==
    /\ last.op = "clear"
    /\ last.result = Cleared(2)
    /\ DOMAIN store = {}

\* C14: for a message not addressed to the bot, on_all_message does not ask
\* the store, does not stop the event and sends nothing, whoever the sender
\* is; the store is left exactly as it was (an expired row of the sender is
\* not purged), and nothing is logged.
C14_Unaddressed ==
    Ready =>
        \A sender \in Senders, is_admin, has_messages, send_ok \in BOOLEAN,
           f \in Outcomes :
            LET d == on_all_message(store, sender, is_admin, FALSE,
                                    has_messages, f, send_ok)
            IN  /\ d.store = store
                /\ ~d.last.queried
                /\ ~d.last.stopped
                /\ d.last.sent = <<>>
                /\ ~d.last.logged /\ ~d.last.escaped

\* an unaddressed message of an actively blacklisted sender who is not
\* exempt went through, the store not asked
C14_Witness ==
    /\ last.op = "on_all_message"
    /\ ~last.addressed
    /\ ~admin_exempt(last.is_admin)
    /\ IsActive(store, last.sender, now)
    /\ ~last.queried /\ ~last.stopped /\ last.sent = <<>>

\* user v's active entry is the same in s2 as in s1: neither created, nor
\* replaced, nor deleted
Kept(s1, s2, v) ==
    /\ IsActive(s1, v, now) <=> IsActive(s2, v, now)
    /\ IsActive(s1, v, now) => s1[v] = s2[v]

\* everything a sender who is neither administrator nor the bot can set off:
\* a message, each of the four tools, and an attempt at each command
Attempts(sender) ==
    {on_all_message(store, sender, FALSE, a, m, f, k) :
        a \in BOOLEAN, m \in BOOLEAN, k \in BOOLEAN, f \in Outcomes}
    \cup {block_user(store, sender, FALSE, u, t, r, f[1], f[2]) :
        u \in Users \cup {NoUser}, t \in Durations, r \in Reasons, f \in FaultPlans}
    \cup {unblock_user(store, sender, FALSE, u, f[1], f[2]) :
        u \in Users, f \in FaultPlans}
    \cup {list_blacklist(store, p, z, f[1], f[2]) :
        p \in Pages, z \in PageSizes, f \in FaultPlans}
    \cup {get_blacklist_status(store, sender, u, f) :
        u \in Users \cup {NoUser}, f \in Outcomes}
    \cup {command(store, FALSE, "ls", NoUser, ls(store, p, z, TRUE, f[1], f[2])) :
        p \in Pages, z \in PageSizes, f \in FaultPlans}
    \cup {command(store, FALSE, "add", u, add(store, u, t, r, f)) :
        u \in Users, t \in Durations, r \in Reasons, f \in Outcomes}
    \cup {command(store, FALSE, "rm", u, rm(store, u, f[1], f[2])) :
        u \in Users, f \in FaultPlans}
    \cup {command(store, FALSE, "clear", NoUser, clear(store, f[1], f[2])) :
        f \in FaultPlans}

\* C15: whatever a sender who is neither an administrator nor the bot sets
\* off (a message, block_user, unblock_user, list_blacklist,
\* get_blacklist_status, an attempted administrator command), with any
\* arguments and any store outcome, in any reachable state, the active entry
\* of every other user is neither created, nor replaced, nor deleted.
C15_OthersUntouched ==
    Ready =>
        \A sender \in Users :
            \A d \in Attempts(sender) :
                \A v \in Users \ {sender} : Kept(store, d.store, v)

\* a sender without administrator rights tried `blacklist rm` on an actively
\* blacklisted user: the command did not run and the entry is still there
C15_Witness ==
    /\ last.op = "rm"
    /\ ~last.is_admin
    /\ last.result = NoResult
    /\ IsActive(store, last.target, now)

\* C16: whenever block_user has returned success with the "blocked" message,
\* an active entry for the target exists at that moment; it never reports a
\* successful block when add_user reported failure.
C16_BlockedIsListed ==
    (/\ last.op = "block_user"
     /\ last.result.success
     /\ last.result.message = "blocked")
        => IsActive(store, last.target, now)

\* C19: with allow_permanent_blacklist false and max_blacklist_duration > 0,
\* every entry block_user has created has an expire_time, at most
\* max_blacklist_duration after its ban_time, whatever duration was
\* requested (zero and negative included).
C19_NeverBeyondMax ==
    (/\ last.op = "block_user"
     /\ last.result.success
     /\ last.result.message = "blocked"
     /\ ~allow_permanent_blacklist
     /\ max_blacklist_duration > 0
     /\ last.target \in DOMAIN store
     /\ store[last.target].ban_time = now)
        => /\ store[last.target].expire_time # None
           /\ store[last.target].expire_time
                  <= store[last.target].ban_time + max_blacklist_duration

\* C20: with allow_blacklist_admin false, an addressed message of an
\* administrator is never stopped and gets no notice, and the store is not
\* asked (so it is left as it was), whether or not the administrator has an
\* active entry and whatever the store would have answered.
C20_AdminExempt ==
    (Ready /\ ~allow_blacklist_admin) =>
        \A sender \in Senders, has_messages, send_ok \in BOOLEAN, f \in Outcomes :
            LET d == on_all_message(store, sender, TRUE, TRUE, has_messages,
                                    f, send_ok)
            IN  /\ ~d.last.stopped
                /\ d.last.sent = <<>>
                /\ ~d.last.queried
                /\ d.store = store
                /\ ~d.last.logged /\ ~d.last.escaped

\* an addressed message of an actively blacklisted administrator went
\* through, the store not asked
C20_Witness ==
    /\ last.op = "on_all_message"
    /\ last.addressed /\ last.is_admin
    /\ ~allow_blacklist_admin
    /\ IsActive(store, last.sender, now)
    /\ ~last.queried /\ ~last.stopped /\ last.sent = <<>>

\* C17: however concurrent block_user calls interleave (each is suspended
\* between its is_user_blacklisted and its add_user), block_user never writes
\* an entry for a target that is actively blacklisted at the moment of the
\* write.
C17_NoWriteOverActive ==
    [][\A call \in BagToSet(inflight) :
          BlockEnd(call) => ~IsActive(store, call.target, now)]_vars

\* C18: however unblock_user interleaves with other removals, and with the
\* store answering normally, an unblock_user the caller is permitted to make
\* returns success = true: it does not fail because the entry went away
\* between its get_user_info and its remove_user.
C18_UnblockSucceeds ==
    (last.op = "unblock_user" /\ last.result # UnblockDenied)
        => last.result.success


====
